---- MODULE Spec2Model ----
(***************************************************************************)
(* A model of the round pacemaker of the PoS consensus:                    *)
(*   crates/cfxcore/core/src/pos/consensus/liveness/round_state.rs         *)
(* RoundState, its ExponentialTimeInterval policy, and the collaborators   *)
(* it drives (SyncInfo, PendingVotes, TimeService, timer channels).        *)
(*                                                                         *)
(* Durations and timestamps are integers in microseconds: from_millis(m)   *)
(* is m * 1000 and Duration / 2 is exact on them.  Rounds and epochs are   *)
(* naturals.  An Option is a sequence of length at most one.               *)
(***************************************************************************)
EXTENDS Integers, Naturals, Sequences, FiniteSets, Bags, TLC

VARIABLES
    time_interval,            \* RoundState.time_interval (the policy's fields)
    highest_committed_round,  \* RoundState.highest_committed_round
    current_round,            \* RoundState.current_round
    current_round_deadline,   \* RoundState.current_round_deadline
    new_round_sent,           \* RoundState.new_round_sent
    pending_votes,            \* RoundState.pending_votes
    vote_sent,                \* RoundState.vote_sent
    verifier,                 \* the epoch's ValidatorVerifier handed to insert_vote
    now,                      \* TimeService.get_current_timestamp()
    scheduled,                \* TimeService: tasks handed to run_after, not yet run
    channel,                  \* the three timer channels: messages sent, not yet received
    capacity,                 \* TimeService: the tasks and messages it holds at most
    panicked,                 \* the owning thread unwound from an arithmetic panic
    call,                     \* the last operation called: its arguments and result
    emitted,                  \* round of the last NewRoundEvent returned before this call
    rpc_server_config,        \* the node's RpcServerConfig (transports and addresses)
    modules,                  \* the TransportRpcModules handed to RpcServerConfig::start
    listeners,                \* the listening sockets: address and the server that holds it
    rpc_server_handle         \* the result of RpcServerConfig::start, once it was called

vars == <<time_interval, highest_committed_round, current_round,
          current_round_deadline, new_round_sent, pending_votes, vote_sent,
          verifier, now, scheduled, channel, capacity, panicked, call,
          emitted, rpc_server_config, modules, listeners, rpc_server_handle>>

\* the node's RPC servers
rpc == <<rpc_server_config, modules, listeners, rpc_server_handle>>

\* what no operation of the RoundState writes
config == <<time_interval, verifier, capacity, rpc>>

round_state == <<highest_committed_round, current_round, current_round_deadline,
                 new_round_sent, pending_votes, vote_sent>>

timers == <<scheduled, channel>>

history == <<emitted>>

(***************************************************************************)
(* Bounds of the model.                                                    *)
(***************************************************************************)
\* Certified rounds (QC, TC) are drawn from 0..MaxRound; commit rounds and vote
\* rounds from 0..MaxRound + 1, one past the rounds that can be certified.
MaxRound == 1
\* The clock is read at most MaxTicks half-base-intervals after construction.
MaxTicks == 1
\* At most MaxTimers timer tasks are outstanding (scheduled or in a channel).
MaxTimers == 1

\* The time service holds up to MaxArmed tasks and messages where the claims
\* are about several timers.
MaxArmed == 2

\* get_round_duration is called with the indices 0..MaxIndex (and with the
\* wrapped index).
MaxIndex == 19
\* Policies are constructed with max_exponent in 0..MaxPolicyExponent (and,
\* for exponent_base 1, with the values around the limit of 32).
MaxPolicyExponent == 17

\* ExponentialTimeInterval::new: max_exponent < 32
MAX_EXPONENT_LIMIT == 32

\* std::u32::MAX, scaled to 16 bits: the integers of the model checker end at
\* 2^31 - 1, and with this limit every power the constructor and
\* get_round_duration take of the exponent bases drawn is computed exactly.
U32_MAX == 65535

\* The round index after 0 - 1 wrapped in an unsigned 64-bit integer
\* (2^64 - 1); any value of at least 32 behaves alike, since max_exponent < 32
\* caps it in get_round_duration.
WrappedIndex == 2147483647

None == <<>>
Some(x) == <<x>>

Max(a, b) == IF a >= b THEN a ELSE b
Min(a, b) == IF a <= b THEN a ELSE b

RECURSIVE Pow(_, _)
Pow(b, e) == IF e = 0 THEN 1 ELSE b * Pow(b, e - 1)

\* ceil(n / d) for n >= 0, d > 0
CeilDiv(n, d) == (n + d - 1) \div d

Epochs == {1, 2}
Rounds == 0..MaxRound
LOCAL_TIMEOUT == "timeout"
PROPOSAL_TIMEOUT == "proposal_timeout"
NEW_ROUND_TIMEOUT == "new_round_timeout"
Channels == {LOCAL_TIMEOUT, PROPOSAL_TIMEOUT, NEW_ROUND_TIMEOUT}

(***************************************************************************)
(* ExponentialTimeInterval.  exponent_base is the rational exp_num/exp_den.*)
(***************************************************************************)
Millis(ms) == ms * 1000

\* Duration / 2
HalfDuration(d) == d \div 2

ExponentialTimeInterval(base_ms, exp_num, exp_den, max_exponent) ==
    [base_ms |-> base_ms, exp_num |-> exp_num, exp_den |-> exp_den,
     max_exponent |-> max_exponent]

\* ExponentialTimeInterval::new: the interval, or None where an assertion
\* fails
ExponentialTimeInterval_new(base_ms, exp_num, exp_den, max_exponent) ==
    IF ~(max_exponent < MAX_EXPONENT_LIMIT)
    THEN None
    ELSE IF ~(CeilDiv(Pow(exp_num, max_exponent), Pow(exp_den, max_exponent))
                < U32_MAX)
    THEN None
    ELSE Some(ExponentialTimeInterval(base_ms, exp_num, exp_den,
                                      max_exponent))

\* f64 as u64: a negative value becomes 0
as_u64(x) == IF x < 0 THEN 0 ELSE x

\* get_round_duration: ceil(base_ms * exponent_base^min(index, max_exponent)) ms
get_round_duration(ti, round_index_after_committed_qc) ==
    LET pow == Min(round_index_after_committed_qc, ti.max_exponent)
        duration_ms == as_u64(CeilDiv(ti.base_ms * Pow(ti.exp_num, pow),
                                      Pow(ti.exp_den, pow)))
    IN  Millis(duration_ms)

(***************************************************************************)
(* SyncInfo: the three round hints and the epoch.                          *)
(***************************************************************************)
SyncInfos ==
    [highest_qc_round : Rounds,
     highest_tc_round : {None} \cup {Some(r) : r \in Rounds},
     highest_commit_round : 0..(MaxRound + 1),
     epoch : Epochs]

\* SyncInfo::highest_round: max(highest_qc_round, highest_tc_round)
highest_round(si) ==
    IF si.highest_tc_round = None
    THEN si.highest_qc_round
    ELSE Max(si.highest_qc_round, si.highest_tc_round[1])

(***************************************************************************)
(* Votes and the ValidatorVerifier.                                        *)
(***************************************************************************)
Authors == {"V1", "V2", "V3", "V4"}
Digests == {"D1", "D2"}

Votes == [author : Authors, round : 0..(MaxRound + 1), digest : Digests,
          timeout : BOOLEAN]

\* ValidatorVerifier: voting power of each validator and the quorum threshold
ValidatorVerifier(power, quorum) ==
    [voting_power |-> power, quorum_voting_power |-> quorum]

RECURSIVE SumPower(_, _)
SumPower(v, authors) ==
    IF authors = {} THEN 0
    ELSE LET a == CHOOSE x \in authors : TRUE
         IN  v.voting_power[a] + SumPower(v, authors \ {a})

\* ValidatorVerifier::check_voting_power
check_voting_power(v, authors) == SumPower(v, authors) >= v.quorum_voting_power

(***************************************************************************)
(* PendingVotes: the votes of one round.  author_to_vote maps each author  *)
(* that voted to its stored vote, li_digest_to_votes each ledger-info      *)
(* digest to the authors counted for it, timeout_votes holds the authors   *)
(* of timeout signatures; qc_emitted / tc_emitted record that the          *)
(* certificate of the round has been returned.                             *)
(***************************************************************************)
PendingVotes_new ==
    [author_to_vote |-> <<>>,
     li_digest_to_votes |-> [d \in Digests |-> {}],
     timeout_votes |-> {},
     qc_emitted |-> FALSE,
     tc_emitted |-> FALSE]

\* the votes a PendingVotes holds
VotesHeld(pv) == {pv.author_to_vote[a] : a \in DOMAIN pv.author_to_vote}

Verdict(kind, a, b) == [kind |-> kind, a |-> a, b |-> b]

\* faulty variant: a quorum certificate is returned whenever the votes of the
\* digest have the quorum, also after one was returned
PendingVotes_insert_vote_emits_again(pv, vote, v) ==
    LET author == vote.author
        seen == author \in DOMAIN pv.author_to_vote
        prev == pv.author_to_vote[author]
        stored == [x \in (DOMAIN pv.author_to_vote) \cup {author} |->
                      IF x = author THEN vote ELSE pv.author_to_vote[x]]
        bucket == pv.li_digest_to_votes[vote.digest] \cup {author}
        counted == [pv EXCEPT !.author_to_vote = stored,
                              !.li_digest_to_votes[vote.digest] = bucket]
        tc_bucket == pv.timeout_votes \cup {author}
        with_timeout == [counted EXCEPT !.timeout_votes = tc_bucket]
    IN  IF author \notin DOMAIN v.voting_power
        THEN [pv |-> pv, ret |-> Verdict("VerifyError", 0, 0)]
        ELSE IF seen /\ prev.digest # vote.digest
        THEN [pv |-> pv, ret |-> Verdict("EquivocateVote", 0, 0)]
        ELSE IF seen /\ ~(vote.timeout /\ ~prev.timeout)
        THEN [pv |-> pv, ret |-> Verdict("DuplicateVote", 0, 0)]
        ELSE IF check_voting_power(v, bucket)
        THEN [pv |-> [counted EXCEPT !.qc_emitted = TRUE],
              ret |-> Verdict("NewQuorumCertificate", 0, 0)]
        ELSE IF vote.timeout /\ check_voting_power(v, tc_bucket)
                /\ ~pv.tc_emitted
        THEN [pv |-> [with_timeout EXCEPT !.tc_emitted = TRUE],
              ret |-> Verdict("NewTimeoutCertificate", 0, 0)]
        ELSE IF vote.timeout
        THEN [pv |-> with_timeout,
              ret |-> Verdict("VoteAddedWithTimeout", SumPower(v, bucket), 0)]
        ELSE [pv |-> counted,
              ret |-> Verdict("VoteAdded", SumPower(v, bucket), 0)]

\* faulty variant: any further vote of an author counts as an equivocation
PendingVotes_insert_vote_seen_equivocates(pv, vote, v) ==
    LET author == vote.author
        seen == author \in DOMAIN pv.author_to_vote
        prev == pv.author_to_vote[author]
        stored == [x \in (DOMAIN pv.author_to_vote) \cup {author} |->
                      IF x = author THEN vote ELSE pv.author_to_vote[x]]
        bucket == pv.li_digest_to_votes[vote.digest] \cup {author}
        counted == [pv EXCEPT !.author_to_vote = stored,
                              !.li_digest_to_votes[vote.digest] = bucket]
        tc_bucket == pv.timeout_votes \cup {author}
        with_timeout == [counted EXCEPT !.timeout_votes = tc_bucket]
    IN  IF author \notin DOMAIN v.voting_power
        THEN [pv |-> pv, ret |-> Verdict("VerifyError", 0, 0)]
        ELSE IF seen
        THEN [pv |-> pv, ret |-> Verdict("EquivocateVote", 0, 0)]
        ELSE IF seen /\ ~(vote.timeout /\ ~prev.timeout)
        THEN [pv |-> pv, ret |-> Verdict("DuplicateVote", 0, 0)]
        ELSE IF check_voting_power(v, bucket) /\ ~pv.qc_emitted
        THEN [pv |-> [counted EXCEPT !.qc_emitted = TRUE],
              ret |-> Verdict("NewQuorumCertificate", 0, 0)]
        ELSE IF vote.timeout /\ check_voting_power(v, tc_bucket)
                /\ ~pv.tc_emitted
        THEN [pv |-> [with_timeout EXCEPT !.tc_emitted = TRUE],
              ret |-> Verdict("NewTimeoutCertificate", 0, 0)]
        ELSE IF vote.timeout
        THEN [pv |-> with_timeout,
              ret |-> Verdict("VoteAddedWithTimeout", SumPower(v, bucket), 0)]
        ELSE [pv |-> counted,
              ret |-> Verdict("VoteAdded", SumPower(v, bucket), 0)]

\* faulty variant: a vote of an author for another ledger info is counted too
PendingVotes_insert_vote_counts_equivocation(pv, vote, v) ==
    LET author == vote.author
        seen == author \in DOMAIN pv.author_to_vote
        prev == pv.author_to_vote[author]
        stored == [x \in (DOMAIN pv.author_to_vote) \cup {author} |->
                      IF x = author THEN vote ELSE pv.author_to_vote[x]]
        bucket == pv.li_digest_to_votes[vote.digest] \cup {author}
        counted == [pv EXCEPT !.author_to_vote = stored,
                              !.li_digest_to_votes[vote.digest] = bucket]
        tc_bucket == pv.timeout_votes \cup {author}
        with_timeout == [counted EXCEPT !.timeout_votes = tc_bucket]
    IN  IF author \notin DOMAIN v.voting_power
        THEN [pv |-> pv, ret |-> Verdict("VerifyError", 0, 0)]
        ELSE IF seen /\ prev.digest = vote.digest
                /\ ~(vote.timeout /\ ~prev.timeout)
        THEN [pv |-> pv, ret |-> Verdict("DuplicateVote", 0, 0)]
        ELSE IF check_voting_power(v, bucket) /\ ~pv.qc_emitted
        THEN [pv |-> [counted EXCEPT !.qc_emitted = TRUE],
              ret |-> Verdict("NewQuorumCertificate", 0, 0)]
        ELSE IF vote.timeout /\ check_voting_power(v, tc_bucket)
                /\ ~pv.tc_emitted
        THEN [pv |-> [with_timeout EXCEPT !.tc_emitted = TRUE],
              ret |-> Verdict("NewTimeoutCertificate", 0, 0)]
        ELSE IF vote.timeout
        THEN [pv |-> with_timeout,
              ret |-> Verdict("VoteAddedWithTimeout", SumPower(v, bucket), 0)]
        ELSE [pv |-> counted,
              ret |-> Verdict("VoteAdded", SumPower(v, bucket), 0)]

\* PendingVotes::insert_vote: the new aggregator and the verdict
PendingVotes_insert_vote(pv, vote, v) ==
    LET author == vote.author
        seen == author \in DOMAIN pv.author_to_vote
        prev == pv.author_to_vote[author]
        stored == [x \in (DOMAIN pv.author_to_vote) \cup {author} |->
                      IF x = author THEN vote ELSE pv.author_to_vote[x]]
        bucket == pv.li_digest_to_votes[vote.digest] \cup {author}
        counted == [pv EXCEPT !.author_to_vote = stored,
                              !.li_digest_to_votes[vote.digest] = bucket]
        tc_bucket == pv.timeout_votes \cup {author}
        with_timeout == [counted EXCEPT !.timeout_votes = tc_bucket]
    IN  IF author \notin DOMAIN v.voting_power
        THEN [pv |-> pv, ret |-> Verdict("VerifyError", 0, 0)]
        ELSE IF seen /\ prev.digest # vote.digest
        THEN [pv |-> pv, ret |-> Verdict("EquivocateVote", 0, 0)]
        ELSE IF seen /\ ~(vote.timeout /\ ~prev.timeout)
        THEN [pv |-> pv, ret |-> Verdict("DuplicateVote", 0, 0)]
        ELSE IF check_voting_power(v, bucket) /\ ~pv.qc_emitted
        THEN [pv |-> [counted EXCEPT !.qc_emitted = TRUE],
              ret |-> Verdict("NewQuorumCertificate", 0, 0)]
        ELSE IF vote.timeout /\ check_voting_power(v, tc_bucket)
                /\ ~pv.tc_emitted
        THEN [pv |-> [with_timeout EXCEPT !.tc_emitted = TRUE],
              ret |-> Verdict("NewTimeoutCertificate", 0, 0)]
        ELSE IF vote.timeout
        THEN [pv |-> with_timeout,
              ret |-> Verdict("VoteAddedWithTimeout", SumPower(v, bucket), 0)]
        ELSE [pv |-> counted,
              ret |-> Verdict("VoteAdded", SumPower(v, bucket), 0)]

(***************************************************************************)
(* TimeService and the timer channels.  A task is the SendTask handed to   *)
(* run_after, with its delay: the channel and the (epoch, round) message.  *)
(* The time service runs a task some time after it was scheduled; the      *)
(* model does not relate that moment to the readings of the clock.         *)
(***************************************************************************)
SendTask(chan, epoch, round, delay) ==
    [chan |-> chan, msg |-> <<epoch, round>>, delay |-> delay]

RECURSIVE SumLen(_, _)
SumLen(f, S) ==
    IF S = {} THEN 0
    ELSE LET c == CHOOSE x \in S : TRUE IN Len(f[c]) + SumLen(f, S \ {c})

Outstanding == BagCardinality(scheduled) + SumLen(channel, Channels)

\* the model's cap on outstanding timer tasks
CanSchedule == Outstanding < capacity

\* TimeService::run_after
run_after(task) == scheduled' = scheduled (+) SetToBag({task})

(***************************************************************************)
(* The owner of the RoundState (the single writer) calls one operation at  *)
(* a time: call holds the operation, its argument and its result until the *)
(* owner takes the result (Return), or repeats the same call at once.      *)
(***************************************************************************)
Idle == [op |-> "idle", arg |-> None, ret |-> [kind |-> "unit"]]

\* the owner notes the NewRoundEvent it holds, if any, before it goes on
TakeEvent ==
    emitted' = IF call.op = "process_certificates" /\ call.ret.kind = "Some"
               THEN Some(call.ret.event.round)
               ELSE emitted

\* the owner is between two calls
CallerIdle == ~panicked /\ call = Idle

\* the owner has a result in hand and makes the same call again
CallerRepeats(op) == ~panicked /\ call.op = op

Return ==
    /\ ~panicked
    /\ call # Idle
    /\ call' = Idle
    /\ TakeEvent
    /\ UNCHANGED <<config, round_state, now, timers, panicked>>

\* the time service runs a task: the message is sent on its channel
Fire(task) ==
    /\ BagIn(task, scheduled)
    /\ scheduled' = scheduled (-) SetToBag({task})
    /\ channel' = [channel EXCEPT ![task.chan] = Append(@, task.msg)]
    /\ UNCHANGED <<config, round_state, now, panicked, call, history>>

\* the subscriber of a channel receives its next message
Receive(chan) ==
    /\ channel[chan] # <<>>
    /\ channel' = [channel EXCEPT ![chan] = Tail(@)]
    /\ UNCHANGED <<config, round_state, now, scheduled, panicked, call,
                   history>>

\* the time service runs a task and the subscriber of its channel takes the
\* message at once
Deliver(task) ==
    /\ CallerIdle
    /\ BagIn(task, scheduled)
    /\ scheduled' = scheduled (-) SetToBag({task})
    /\ UNCHANGED <<config, round_state, now, channel, panicked, call, history>>

\* the clock advances by half the base interval
Tick ==
    /\ CallerIdle
    /\ now < MaxTicks * HalfDuration(Millis(time_interval.base_ms))
    /\ now' = now + HalfDuration(Millis(time_interval.base_ms))
    /\ UNCHANGED <<config, round_state, timers, panicked, call, history>>

(***************************************************************************)
(* RoundState.                                                             *)
(***************************************************************************)
\* get_round_index_after_committed_round overflows: 0 - 1 on an unsigned
\* round.  A build with overflow checks panics there, one without wraps.
index_underflows(round, committed) == committed = 0 /\ round = 0

\* faulty variant: the rounds after genesis wait for three uncommitted rounds
\* like the rounds after any other commit
get_round_index_three_chain_at_genesis(round, committed) ==
    IF round < committed + 3
    THEN 0
    ELSE round - committed - 3

\* get_round_index_after_committed_round, where it does not panic
get_round_index_after_committed_round(round, committed) ==
    IF committed = 0
    THEN IF round = 0 THEN WrappedIndex ELSE round - 1
    ELSE IF round < committed + 3
    THEN 0
    ELSE round - committed - 3

\* faulty variant: the committed round of the SyncInfo is taken as it is
update_highest_committed_round_overwrites(committed, si) ==
    si.highest_commit_round

\* process_certificates: the committed-round hint after the call
update_highest_committed_round(committed, si) ==
    IF si.highest_commit_round > committed
    THEN si.highest_commit_round
    ELSE committed

\* faulty variant: the round after the certified one is not taken
new_round_without_increment(si) == highest_round(si)

\* process_certificates: let new_round = sync_info.highest_round() + 1
new_round_of(si) == highest_round(si) + 1

\* faulty variant: any round other than the current one starts a new round
starts_new_round_on_change(new_round, round) == new_round # round

\* process_certificates: if new_round > self.current_round
starts_new_round(new_round, round) == new_round > round

\* faulty variant: the reason follows the higher certificate, QCReady on a tie
new_round_reason_by_higher_round(si) ==
    IF si.highest_tc_round = None
           \/ si.highest_qc_round >= si.highest_tc_round[1]
    THEN "QCReady"
    ELSE "Timeout"

\* process_certificates: the new round reason
new_round_reason(si) ==
    IF si.highest_tc_round = None THEN "QCReady" ELSE "Timeout"

NewRoundEvent(round, reason, timeout) ==
    [round |-> round, reason |-> reason, timeout |-> timeout]

\* setup_deadline: the duration of the round
round_timeout(round, committed) ==
    get_round_duration(time_interval,
        get_round_index_after_committed_round(round, committed))

\* setup_proposal_deadline and setup_new_round_deadline: half of it
half_round_timeout(round, committed) ==
    HalfDuration(round_timeout(round, committed))

\* setup_deadline: current_round_deadline = now + timeout
setup_deadline(timeout) == current_round_deadline' = now + timeout

\* faulty variant: the task replaces the tasks scheduled before
setup_timeout_cancels_pending(epoch, round, committed) ==
    /\ setup_deadline(round_timeout(round, committed))
    /\ scheduled' = SetToBag({SendTask(LOCAL_TIMEOUT, epoch, round,
                                       round_timeout(round, committed))})

\* faulty variant: the message carries the round after the one armed
setup_timeout_tags_next_round(epoch, round, committed) ==
    /\ setup_deadline(round_timeout(round, committed))
    /\ run_after(SendTask(LOCAL_TIMEOUT, epoch, round + 1,
                          round_timeout(round, committed)))

\* setup_timeout, for the round and the committed round as the caller left them
setup_timeout(epoch, round, committed) ==
    /\ setup_deadline(round_timeout(round, committed))
    /\ run_after(SendTask(LOCAL_TIMEOUT, epoch, round,
                          round_timeout(round, committed)))

\* the operation panics on the round index: nothing was written before it
Panic(op, arg) ==
    /\ panicked' = TRUE
    /\ call' = [op |-> op, arg |-> arg, ret |-> [kind |-> "panic"]]
    /\ TakeEvent
    /\ UNCHANGED <<config, round_state, now, timers>>

\* RoundState::new
RoundState_new ==
    /\ highest_committed_round = 0
    /\ current_round = 0
    /\ current_round_deadline = now
    /\ new_round_sent = FALSE
    /\ pending_votes = PendingVotes_new
    /\ vote_sent = None

\* faulty variant: the round of the timeout message is adopted
process_local_timeout_adopts_tag(epoch_round) ==
    /\ ~panicked
    /\ CanSchedule
    /\ current_round' = epoch_round[2]
    /\ setup_timeout(epoch_round[1], epoch_round[2], highest_committed_round)
    /\ call' = [op |-> "process_local_timeout", arg |-> epoch_round,
                ret |-> [kind |-> "true"]]
    /\ TakeEvent
    /\ UNCHANGED <<config, highest_committed_round, new_round_sent,
                   pending_votes, vote_sent, now, channel, panicked>>

\* faulty variant: the timeout is acknowledged and no timer is armed again
process_local_timeout_without_rearm(epoch_round) ==
    /\ ~panicked
    /\ call' = [op |-> "process_local_timeout", arg |-> epoch_round,
                ret |-> [kind |-> "true"]]
    /\ TakeEvent
    /\ UNCHANGED <<config, round_state, now, timers, panicked>>

\* faulty variant: the timeout is armed twice
process_local_timeout_arms_twice(epoch_round) ==
    LET task == SendTask(LOCAL_TIMEOUT, epoch_round[1], current_round,
                         round_timeout(current_round, highest_committed_round))
    IN  /\ ~panicked
        /\ Outstanding + 1 < capacity
        /\ setup_deadline(round_timeout(current_round, highest_committed_round))
        /\ scheduled' = scheduled (+) SetToBag({task}) (+) SetToBag({task})
        /\ call' = [op |-> "process_local_timeout", arg |-> epoch_round,
                    ret |-> [kind |-> "true"]]
        /\ TakeEvent
        /\ UNCHANGED <<config, highest_committed_round, current_round,
                       new_round_sent, pending_votes, vote_sent, now, channel,
                       panicked>>

process_local_timeout(epoch_round) ==
    /\ ~panicked
    /\ \/ /\ index_underflows(current_round, highest_committed_round)
          /\ Panic("process_local_timeout", epoch_round)
       \/ /\ CanSchedule
          /\ setup_timeout(epoch_round[1], current_round, highest_committed_round)
          /\ call' = [op |-> "process_local_timeout", arg |-> epoch_round,
                      ret |-> [kind |-> "true"]]
          /\ TakeEvent
          /\ UNCHANGED <<config, highest_committed_round, current_round,
                         new_round_sent, pending_votes, vote_sent, now, channel,
                         panicked>>

\* faulty variant: the new-round flag of the old round survives
start_new_round_keeps_flag(new_round) ==
    /\ current_round' = new_round
    /\ new_round_sent' = new_round_sent
    /\ pending_votes' = PendingVotes_new
    /\ vote_sent' = None

\* faulty variant: the votes of the old round survive
start_new_round_keeps_votes(new_round) ==
    /\ current_round' = new_round
    /\ new_round_sent' = FALSE
    /\ pending_votes' = pending_votes
    /\ vote_sent' = None

\* process_certificates: the fields written when a new round starts
start_new_round(new_round) ==
    /\ current_round' = new_round
    /\ new_round_sent' = FALSE
    /\ pending_votes' = PendingVotes_new
    /\ vote_sent' = None

\* faulty variant: the recorded vote is cleared although no round starts
no_new_round_clears_vote(sync_info) ==
    /\ call' = [op |-> "process_certificates", arg |-> sync_info,
                ret |-> [kind |-> "None"]]
    /\ vote_sent' = None
    /\ UNCHANGED <<current_round, current_round_deadline, new_round_sent,
                   pending_votes, timers>>

\* faulty variant: the local timeout is armed again although no round starts
no_new_round_rearms(sync_info) ==
    /\ call' = [op |-> "process_certificates", arg |-> sync_info,
                ret |-> [kind |-> "None"]]
    /\ run_after(SendTask(LOCAL_TIMEOUT, sync_info.epoch, current_round,
                          round_timeout(current_round,
                                        highest_committed_round)))
    /\ UNCHANGED <<current_round, current_round_deadline, new_round_sent,
                   pending_votes, vote_sent, channel>>

\* process_certificates: no new round starts, None is returned
no_new_round(sync_info) ==
    /\ call' = [op |-> "process_certificates", arg |-> sync_info,
                ret |-> [kind |-> "None"]]
    /\ UNCHANGED <<current_round, current_round_deadline, new_round_sent,
                   pending_votes, vote_sent, timers>>

\* faulty variant: the timeout of the new round is computed before the
\* committed round of the SyncInfo is taken
process_certificates_commit_after_timeout(sync_info) ==
    LET committed == update_highest_committed_round(highest_committed_round,
                                                    sync_info)
        new_round == new_round_of(sync_info)
        timeout == round_timeout(new_round, highest_committed_round)
        new_round_event == NewRoundEvent(new_round, new_round_reason(sync_info),
                                         timeout)
    IN  /\ ~panicked
        /\ highest_committed_round' = committed
        /\ TakeEvent
        /\ UNCHANGED <<config, now, panicked>>
        /\ \/ /\ starts_new_round(new_round, current_round)
              /\ CanSchedule
              /\ start_new_round(new_round)
              /\ setup_timeout(sync_info.epoch, new_round,
                               highest_committed_round)
              /\ call' = [op |-> "process_certificates", arg |-> sync_info,
                          ret |-> [kind |-> "Some", event |-> new_round_event]]
              /\ UNCHANGED channel
           \/ /\ ~starts_new_round(new_round, current_round)
              /\ no_new_round(sync_info)

process_certificates(sync_info) ==
    LET committed == update_highest_committed_round(highest_committed_round,
                                                    sync_info)
        new_round == new_round_of(sync_info)
        timeout == round_timeout(new_round, committed)
        new_round_event == NewRoundEvent(new_round, new_round_reason(sync_info),
                                         timeout)
    IN  /\ ~panicked
        /\ highest_committed_round' = committed
        /\ TakeEvent
        /\ UNCHANGED <<config, now, panicked>>
        /\ \/ /\ starts_new_round(new_round, current_round)
              /\ CanSchedule
              /\ start_new_round(new_round)
              /\ setup_timeout(sync_info.epoch, new_round, committed)
              /\ call' = [op |-> "process_certificates", arg |-> sync_info,
                          ret |-> [kind |-> "Some", event |-> new_round_event]]
              /\ UNCHANGED channel
           \/ /\ ~starts_new_round(new_round, current_round)
              /\ no_new_round(sync_info)

\* faulty variant: the two rounds of the verdict are swapped
unexpected_round_swapped(vote, round) ==
    Verdict("UnexpectedRound", round, vote.round)

\* insert_vote: the verdict for a vote of another round
unexpected_round(vote, round) == Verdict("UnexpectedRound", vote.round, round)

insert_vote(vote) ==
    /\ ~panicked
    /\ IF vote.round = current_round
       THEN LET r == PendingVotes_insert_vote(pending_votes, vote, verifier)
            IN  /\ pending_votes' = r.pv
                /\ call' = [op |-> "insert_vote", arg |-> vote, ret |-> r.ret]
       ELSE /\ pending_votes' = pending_votes
            /\ call' = [op |-> "insert_vote", arg |-> vote,
                        ret |-> unexpected_round(vote, current_round)]
    /\ TakeEvent
    /\ UNCHANGED <<config, highest_committed_round, current_round,
                   current_round_deadline, new_round_sent, vote_sent, now,
                   timers, panicked>>

\* faulty variant: the vote is recorded whatever its round
record_vote_any_round(vote) ==
    /\ ~panicked
    /\ vote_sent' = Some(vote)
    /\ call' = [op |-> "record_vote", arg |-> vote, ret |-> [kind |-> "unit"]]
    /\ TakeEvent
    /\ UNCHANGED <<config, highest_committed_round, current_round,
                   current_round_deadline, new_round_sent, pending_votes, now,
                   timers, panicked>>

record_vote(vote) ==
    /\ ~panicked
    /\ vote_sent' = IF vote.round = current_round THEN Some(vote) ELSE vote_sent
    /\ call' = [op |-> "record_vote", arg |-> vote, ret |-> [kind |-> "unit"]]
    /\ TakeEvent
    /\ UNCHANGED <<config, highest_committed_round, current_round,
                   current_round_deadline, new_round_sent, pending_votes, now,
                   timers, panicked>>

setup_proposal_timeout(epoch) ==
    LET timeout == half_round_timeout(current_round, highest_committed_round)
    IN  /\ ~panicked
        /\ \/ /\ index_underflows(current_round, highest_committed_round)
              /\ Panic("setup_proposal_timeout", epoch)
           \/ /\ CanSchedule
              /\ run_after(SendTask(PROPOSAL_TIMEOUT, epoch, current_round,
                                    timeout))
              /\ call' = [op |-> "setup_proposal_timeout", arg |-> epoch,
                          ret |-> [kind |-> "Duration", timeout |-> timeout]]
              /\ TakeEvent
              /\ UNCHANGED <<config, round_state, now, channel, panicked>>

setup_new_round_timeout(epoch) ==
    LET timeout == half_round_timeout(current_round, highest_committed_round)
        task == SendTask(NEW_ROUND_TIMEOUT, epoch, current_round, timeout)
    IN  /\ ~panicked
        /\ \/ /\ new_round_sent
              /\ call' = [op |-> "setup_new_round_timeout", arg |-> epoch,
                          ret |-> [kind |-> "None"]]
              /\ TakeEvent
              /\ UNCHANGED <<config, round_state, now, timers, panicked>>
           \/ /\ ~new_round_sent
              /\ index_underflows(current_round, highest_committed_round)
              /\ Panic("setup_new_round_timeout", epoch)
           \/ /\ ~new_round_sent
              /\ CanSchedule
              /\ run_after(task)
              /\ new_round_sent' = TRUE
              /\ call' = [op |-> "setup_new_round_timeout", arg |-> epoch,
                          ret |-> [kind |-> "Some", timeout |-> timeout]]
              /\ TakeEvent
              /\ UNCHANGED <<config, highest_committed_round, current_round,
                             current_round_deadline, pending_votes, vote_sent,
                             now, channel, panicked>>

(***************************************************************************)
(* The node's RPC servers: crates/rpc/rpc-builder/src/lib.rs.              *)
(* RpcServerConfig holds, for each of the transports http and ws, whether  *)
(* a server is configured and the address to bind, if one was set.  A      *)
(* socket address is a string; a server is the address it listens on and   *)
(* the transports it serves.  The CORS domains and the RPC middleware of    *)
(* the config are not read by start and are left out.                       *)
(***************************************************************************)
\* SocketAddrV4::new(Ipv4Addr::LOCALHOST, constants::DEFAULT_HTTP_PORT)
DEFAULT_HTTP_ADDR == "127.0.0.1:DEFAULT_HTTP_PORT"

\* SocketAddrV4::new(Ipv4Addr::LOCALHOST, constants::DEFAULT_WS_PORT)
DEFAULT_WS_ADDR == "127.0.0.1:DEFAULT_WS_PORT"

\* the addresses a transport can be given, and the ones other processes hold
SocketAddrs == {DEFAULT_HTTP_ADDR, DEFAULT_WS_ADDR, "127.0.0.1:other"}

\* RpcServerConfig::default
RpcServerConfig_default ==
    [http_server_config |-> FALSE, http_addr |-> None,
     ws_server_config |-> FALSE, ws_addr |-> None]

\* TransportRpcModules: whether the module selections of http and ws are
\* identical (RpcModuleSelection::are_identical), and which modules are
\* installed
TransportRpcModules ==
    [identical : BOOLEAN, http : BOOLEAN, ws : BOOLEAN]

\* a jsonrpsee server bound to an address, or the socket of another process
Server(addr, transport) == [addr |-> addr, transport |-> transport]

\* ServerBuilder::build binds the address: it fails while a socket listens there
can_build(addr, bound) == \A l \in bound : l.addr # addr

RpcServerHandle(http_local_addr, ws_local_addr, http, ws) ==
    [kind |-> "Ok", http_local_addr |-> http_local_addr,
     ws_local_addr |-> ws_local_addr, http |-> http, ws |-> ws]

\* RpcError::server_error(err, ServerKind(addr)), and the error of
\* ensure_ws_http_identical
RpcError(server_kind, addr) ==
    [kind |-> "Err", server_kind |-> server_kind, addr |-> addr]

\* start: let http_socket_addr = self.http_addr.unwrap_or(default)
http_socket_addr(cfg) ==
    IF cfg.http_addr = None THEN DEFAULT_HTTP_ADDR ELSE cfg.http_addr[1]

\* start: let ws_socket_addr = self.ws_addr.unwrap_or(default)
ws_socket_addr(cfg) ==
    IF cfg.ws_addr = None THEN DEFAULT_WS_ADDR ELSE cfg.ws_addr[1]

\* start: the test that merges the two transports into one server
same_port(cfg) ==
    /\ cfg.http_addr = cfg.ws_addr
    /\ cfg.http_server_config
    /\ cfg.ws_server_config

\* TransportRpcModuleConfig::ensure_ws_http_identical
ensure_ws_http_identical(mods) == mods.identical

\* start, the two transports merged into one server: the result and the
\* sockets that listen when it returns
start_same_port(cfg, mods, bound) ==
    LET addr == http_socket_addr(cfg)
        server == Server(addr, "ws_http")
    IN  IF ~ensure_ws_http_identical(mods)
        THEN [ret |-> RpcError("ConflictingModules", None), listeners |-> bound]
        ELSE IF ~can_build(addr, bound)
        THEN [ret |-> RpcError("WsHttp", Some(addr)), listeners |-> bound]
        ELSE IF mods.http \/ mods.ws
        THEN [ret |-> RpcServerHandle(Some(addr), Some(addr), Some(server),
                                      Some(server)),
              listeners |-> bound \cup {server}]
        ELSE [ret |-> RpcServerHandle(Some(addr), Some(addr), None, None),
              listeners |-> bound]

\* start, a server for each configured transport: ws is built first, then
\* http, then both are started; a server built before an error or a panic is
\* dropped
start_separate(cfg, mods, bound) ==
    LET ws_server == IF cfg.ws_server_config
                     THEN Some(Server(ws_socket_addr(cfg), "ws_only"))
                     ELSE None
        after_ws == bound \cup {ws_server[i] : i \in 1..Len(ws_server)}
        http_server == IF cfg.http_server_config
                       THEN Some(Server(http_socket_addr(cfg), "http_only"))
                       ELSE None
        after_http == after_ws \cup {http_server[i] : i \in 1..Len(http_server)}
        local_addr(server) == IF server = None THEN None
                              ELSE Some(server[1].addr)
    IN  IF cfg.ws_server_config /\ ~can_build(ws_socket_addr(cfg), bound)
        THEN [ret |-> RpcError("WS", Some(ws_socket_addr(cfg))),
              listeners |-> bound]
        ELSE IF cfg.http_server_config
                  /\ ~can_build(http_socket_addr(cfg), after_ws)
        THEN [ret |-> RpcError("Http", Some(http_socket_addr(cfg))),
              listeners |-> bound]
        ELSE IF \/ cfg.http_server_config /\ ~mods.http
                \/ cfg.ws_server_config /\ ~mods.ws
        THEN [ret |-> [kind |-> "panic"], listeners |-> bound]
        ELSE [ret |-> RpcServerHandle(local_addr(http_server),
                                      local_addr(ws_server), http_server,
                                      ws_server),
              listeners |-> after_http]

\* RpcServerConfig::start
RpcServerConfig_start(cfg, mods, bound) ==
    IF same_port(cfg)
    THEN start_same_port(cfg, mods, bound)
    ELSE start_separate(cfg, mods, bound)

\* the RoundState and its timers, which the RPC servers never touch
pacemaker ==
    <<time_interval, verifier, capacity, round_state, now, timers, panicked,
      call, history>>

\* no RPC server is configured or started
NoRpcServer ==
    /\ rpc_server_config = RpcServerConfig_default
    /\ modules = [identical |-> TRUE, http |-> FALSE, ws |-> FALSE]
    /\ listeners = {}
    /\ rpc_server_handle = None

\* RpcServerConfig::with_http
with_http ==
    /\ rpc_server_handle = None
    /\ rpc_server_config' =
          [rpc_server_config EXCEPT !.http_server_config = TRUE]
    /\ UNCHANGED <<modules, listeners, rpc_server_handle, pacemaker>>

\* RpcServerConfig::with_ws
with_ws ==
    /\ rpc_server_handle = None
    /\ rpc_server_config' =
          [rpc_server_config EXCEPT !.ws_server_config = TRUE]
    /\ UNCHANGED <<modules, listeners, rpc_server_handle, pacemaker>>

\* RpcServerConfig::with_http_address
with_http_address(addr) ==
    /\ rpc_server_handle = None
    /\ rpc_server_config' = [rpc_server_config EXCEPT !.http_addr = Some(addr)]
    /\ UNCHANGED <<modules, listeners, rpc_server_handle, pacemaker>>

\* RpcServerConfig::with_ws_address
with_ws_address(addr) ==
    /\ rpc_server_handle = None
    /\ rpc_server_config' = [rpc_server_config EXCEPT !.ws_addr = Some(addr)]
    /\ UNCHANGED <<modules, listeners, rpc_server_handle, pacemaker>>

\* RpcServerConfig::start consumes the config: it is called once
start ==
    LET r == RpcServerConfig_start(rpc_server_config, modules, listeners)
    IN  /\ rpc_server_handle = None
        /\ rpc_server_handle' = Some(r.ret)
        /\ listeners' = r.listeners
        /\ UNCHANGED <<rpc_server_config, modules, pacemaker>>

(***************************************************************************)
(* Spec: a RoundState of one epoch, from its construction on.  Its owner   *)
(* calls the operations in any order with any arguments; the time service  *)
(* runs the scheduled tasks.  The clock is not advanced.                   *)
(***************************************************************************)
\* the policy and the validators of the epoch
SpecInterval == ExponentialTimeInterval(1, 2, 1, 1)
SpecVerifier == ValidatorVerifier([a \in {"V1", "V2"} |-> 1], 2)

\* the epoch of the RoundState
SpecEpochs == {1}

\* the certificates that reach the RoundState are of its epoch
SpecSyncInfos == {si \in SyncInfos : si.epoch \in SpecEpochs}

\* the votes that reach the RoundState are signed by validators of the epoch
SpecVotes ==
    {v \in Votes : /\ v.author \in DOMAIN SpecVerifier.voting_power
                   /\ v.digest = "D1"
                   /\ ~v.timeout}

\* the votes the node casts itself
SpecOwnVotes == {v \in SpecVotes : v.author = "V1"}

Init ==
    /\ time_interval = SpecInterval
    /\ verifier = SpecVerifier
    /\ now = 0
    /\ RoundState_new
    /\ scheduled = EmptyBag
    /\ channel = [c \in Channels |-> <<>>]
    /\ capacity = MaxTimers
    /\ panicked = FALSE
    /\ call = Idle
    /\ emitted = None
    /\ NoRpcServer

\* the owner makes a call
Call ==
    /\ CallerIdle
    /\ \/ \E si \in SpecSyncInfos : process_certificates(si)
       \/ \E e \in SpecEpochs, r \in Rounds : process_local_timeout(<<e, r>>)
       \/ \E v \in SpecVotes : insert_vote(v)
       \/ \E v \in SpecOwnVotes : record_vote(v)
       \/ \E e \in SpecEpochs : setup_proposal_timeout(e)
       \/ \E e \in SpecEpochs : setup_new_round_timeout(e)

\* the owner makes the call it just made once more, with the same argument
Repeat ==
    \/ CallerRepeats("process_certificates") /\ process_certificates(call.arg)
    \/ CallerRepeats("insert_vote") /\ insert_vote(call.arg)
    \/ CallerRepeats("setup_new_round_timeout")
          /\ setup_new_round_timeout(call.arg)

\* the time service runs a task
Environment == \E t \in BagToSet(scheduled) : Deliver(t)

Next == Call \/ Repeat \/ Environment \/ Return

Spec == Init /\ [][Next]_vars

(***************************************************************************)
(* The timeout policy: an ExponentialTimeInterval is constructed from any  *)
(* of a set of configurations, handed to a RoundState, and asked for       *)
(* durations, directly and through process_certificates.                   *)
(***************************************************************************)

\* base intervals, in milliseconds
PolicyBases == {0, 1, 3}

\* exponent bases, as <<numerator, denominator>>
PolicyExponentBases ==
    {<<0 - 2, 1>>, <<1, 2>>, <<1, 1>>, <<3, 2>>, <<2, 1>>, <<3, 1>>}

\* the arguments of ExponentialTimeInterval::new:
\* <<base_ms, exponent_base, max_exponent>>
PolicyConfigs ==
    (PolicyBases \X PolicyExponentBases \X (0..MaxPolicyExponent))
        \cup (PolicyBases \X {<<1, 1>>}
                \X ((MAX_EXPONENT_LIMIT - 1)..(MAX_EXPONENT_LIMIT + 1)))

\* the arguments of get_round_duration
PolicyIndices == (0..MaxIndex) \cup {WrappedIndex}

\* the certificates of the rounds after genesis, nothing committed
PolicySyncInfos == {si \in SpecSyncInfos : si.highest_commit_round = 0}

InitPolicy ==
    /\ time_interval = None
    /\ verifier = SpecVerifier
    /\ now = 0
    /\ RoundState_new
    /\ scheduled = EmptyBag
    /\ channel = [c \in Channels |-> <<>>]
    /\ capacity = MaxTimers
    /\ panicked = FALSE
    /\ call = Idle
    /\ emitted = None
    /\ NoRpcServer

\* ExponentialTimeInterval::new, and RoundState::new with the interval; a
\* failed assertion panics
New(cfg) ==
    LET interval == ExponentialTimeInterval_new(cfg[1], cfg[2][1], cfg[2][2],
                                                cfg[3])
    IN  /\ CallerIdle
        /\ time_interval = None
        /\ IF interval = None
           THEN /\ panicked' = TRUE
                /\ call' = [op |-> "new", arg |-> cfg,
                            ret |-> [kind |-> "panic"]]
                /\ UNCHANGED time_interval
           ELSE /\ time_interval' = interval[1]
                /\ call' = [op |-> "new", arg |-> cfg,
                            ret |-> [kind |-> "Self"]]
                /\ UNCHANGED panicked
        /\ UNCHANGED <<verifier, capacity, rpc, round_state, now, timers,
                       history>>

\* a call of get_round_duration on the interval
GetRoundDuration(index) ==
    /\ CallerIdle
    /\ time_interval # None
    /\ call' = [op |-> "get_round_duration", arg |-> index,
                ret |-> [kind |-> "Duration",
                         timeout |-> get_round_duration(time_interval, index)]]
    /\ UNCHANGED <<config, round_state, now, timers, panicked, history>>

\* certificates reach the RoundState that holds the interval
Certificates ==
    /\ CallerIdle
    /\ time_interval # None
    /\ \E si \in PolicySyncInfos : process_certificates(si)

Construct == \E cfg \in PolicyConfigs : New(cfg)

Duration == \E index \in PolicyIndices : GetRoundDuration(index)

NextPolicy == Construct \/ Duration \/ Certificates \/ Environment \/ Return

SpecPolicy == InitPolicy /\ [][NextPolicy]_vars

(***************************************************************************)
(* The timers: the owner arms timers on the three channels and advances    *)
(* the round while the time service holds up to MaxArmed tasks and         *)
(* messages.  The time service runs on its own: it sends the message of a  *)
(* task whatever the owner is doing, at any time after the task was        *)
(* scheduled.                                                              *)
(***************************************************************************)
\* the quorum certificates of the rounds after genesis, nothing committed
TimerSyncInfos == {si \in PolicySyncInfos : si.highest_tc_round = None}

InitTimers ==
    /\ time_interval = SpecInterval
    /\ verifier = SpecVerifier
    /\ now = 0
    /\ RoundState_new
    /\ scheduled = EmptyBag
    /\ channel = [c \in Channels |-> <<>>]
    /\ capacity = MaxArmed
    /\ panicked = FALSE
    /\ call = Idle
    /\ emitted = None
    /\ NoRpcServer

\* the owner advances the round or arms a timer
Arm ==
    /\ CallerIdle
    /\ \/ \E si \in TimerSyncInfos : process_certificates(si)
       \/ \E e \in SpecEpochs : process_local_timeout(<<e, current_round>>)
       \/ \E e \in SpecEpochs : setup_proposal_timeout(e)
       \/ \E e \in SpecEpochs : setup_new_round_timeout(e)

\* the time service runs the task scheduled for a channel and a round
FireFor(chan, round) ==
    \E t \in BagToSet(scheduled) :
        /\ t.chan = chan
        /\ t.msg[2] = round
        /\ Fire(t)

\* the rounds a timer message can carry
TimerRounds == 0..(MaxRound + 1)

TimeServiceRuns == \E c \in Channels, r \in TimerRounds : FireFor(c, r)

SubscriberReceives == \E c \in Channels : Receive(c)

NextTimers == Arm \/ TimeServiceRuns \/ SubscriberReceives \/ Return

SpecTimers == InitTimers /\ [][NextTimers]_vars

\* the time service runs every task it was handed
SpecTimersFair ==
    /\ SpecTimers
    /\ \A c \in Channels, r \in TimerRounds : WF_vars(FireFor(c, r))

(***************************************************************************)
(* The votes of a round: four validators of equal power, three of which    *)
(* make a quorum, vote for either of two ledger infos, with or without a   *)
(* timeout signature, in the rounds the certificates start.                *)
(***************************************************************************)
VotingVerifier == ValidatorVerifier([a \in Authors |-> 1], 3)

InitVoting ==
    /\ time_interval = SpecInterval
    /\ verifier = VotingVerifier
    /\ now = 0
    /\ RoundState_new
    /\ scheduled = EmptyBag
    /\ channel = [c \in Channels |-> <<>>]
    /\ capacity = MaxTimers
    /\ panicked = FALSE
    /\ call = Idle
    /\ emitted = None
    /\ NoRpcServer

\* a vote of the current round reaches the RoundState
CastVote ==
    /\ CallerIdle
    /\ \E v \in Votes : v.round = current_round /\ insert_vote(v)

\* the vote just inserted reaches the RoundState once more
RepeatVote == CallerRepeats("insert_vote") /\ insert_vote(call.arg)

NextVoting ==
    Certificates \/ CastVote \/ RepeatVote \/ Environment \/ Return

SpecVoting == InitVoting /\ [][NextVoting]_vars

(***************************************************************************)
(* The pace of the rounds: quorum certificates of rounds well beyond the   *)
(* committed round start the rounds, the owner arms timers in them, and    *)
(* the clock advances.                                                     *)
(***************************************************************************)
PacingSyncInfos ==
    [highest_qc_round : 0..(MaxRound + 3),
     highest_tc_round : {None},
     highest_commit_round : 0..(MaxRound + 1),
     epoch : SpecEpochs]

\* certificates reach the RoundState
Advance ==
    /\ CallerIdle
    /\ \E si \in PacingSyncInfos : process_certificates(si)

\* the owner handles a local timeout or arms one of the other timers
ArmTimer ==
    /\ CallerIdle
    /\ \/ \E e \in SpecEpochs : process_local_timeout(<<e, current_round>>)
       \/ \E e \in SpecEpochs : setup_proposal_timeout(e)
       \/ \E e \in SpecEpochs : setup_new_round_timeout(e)

NextPacing == Advance \/ ArmTimer \/ Environment \/ Tick \/ Return

SpecPacing == Init /\ [][NextPacing]_vars

(***************************************************************************)
(* The local-timeout chain: the owner starts rounds with the certificates  *)
(* it receives, takes the messages of the local-timeout channel and passes *)
(* each of them to process_local_timeout.                                  *)
(***************************************************************************)
\* the owner starts a round
StartRound ==
    /\ CallerIdle
    /\ \E si \in SpecSyncInfos : process_certificates(si)

\* the owner takes the next message of the local-timeout channel
ReceiveLocalTimeout ==
    /\ CallerIdle
    /\ channel[LOCAL_TIMEOUT] # <<>>
    /\ channel' = [channel EXCEPT ![LOCAL_TIMEOUT] = Tail(@)]
    /\ call' = [op |-> "receive_local_timeout",
                arg |-> Head(channel[LOCAL_TIMEOUT]),
                ret |-> [kind |-> "message"]]
    /\ UNCHANGED <<config, round_state, now, scheduled, panicked, history>>

\* and passes it to process_local_timeout
PassLocalTimeout ==
    /\ call.op = "receive_local_timeout"
    /\ process_local_timeout(call.arg)

\* the owner is done with the result of a call
Finish == call.op # "receive_local_timeout" /\ Return

\* the time service runs a local-timeout task
LocalTimeoutFires == \E r \in TimerRounds : FireFor(LOCAL_TIMEOUT, r)

NextChain ==
    StartRound \/ ReceiveLocalTimeout \/ PassLocalTimeout \/ Finish
        \/ LocalTimeoutFires

SpecChain == InitTimers /\ [][NextChain]_vars

\* the time service runs every task it was handed; the owner finishes its
\* calls, takes every message that stays on the channel and passes it on
SpecChainFair ==
    /\ SpecChain
    /\ \A r \in TimerRounds : WF_vars(FireFor(LOCAL_TIMEOUT, r))
    /\ SF_vars(ReceiveLocalTimeout)
    /\ WF_vars(PassLocalTimeout)
    /\ WF_vars(Finish)

(***************************************************************************)
(* The consumer of the local-timeout channel that matches every message    *)
(* against the current round: it passes the messages of the current round  *)
(* to process_local_timeout and drops the others.                          *)
(***************************************************************************)
\* the message in hand carries the current round: it is passed on
PassCurrentLocalTimeout ==
    /\ call.op = "receive_local_timeout"
    /\ call.arg[2] = current_round
    /\ process_local_timeout(call.arg)

\* the message in hand carries another round: it is dropped
DropStaleLocalTimeout ==
    /\ call.op = "receive_local_timeout"
    /\ call.arg[2] # current_round
    /\ Return

NextConsumer ==
    StartRound \/ ReceiveLocalTimeout \/ PassCurrentLocalTimeout
        \/ DropStaleLocalTimeout \/ Finish \/ LocalTimeoutFires

SpecConsumer == InitTimers /\ [][NextConsumer]_vars

\* the local-timeout tasks and messages of a round that no subscriber has
\* received yet
UndeliveredLocalTimeouts(round) ==
    LET tasks == {t \in BagToSet(scheduled) :
                    t.chan = LOCAL_TIMEOUT /\ t.msg[2] = round}
        sent == {i \in 1..Len(channel[LOCAL_TIMEOUT]) :
                    channel[LOCAL_TIMEOUT][i][2] = round}
    IN  BagCardinality([t \in tasks |-> CopiesIn(t, scheduled)])
            + Cardinality(sent)

(***************************************************************************)
(* The RPC servers of a node: a config is built from the default with the  *)
(* builder methods, in any order, and started once with any modules, while *)
(* other processes may listen on any of the addresses.                     *)
(***************************************************************************)
InitRpc ==
    /\ time_interval = SpecInterval
    /\ verifier = SpecVerifier
    /\ now = 0
    /\ RoundState_new
    /\ scheduled = EmptyBag
    /\ channel = [c \in Channels |-> <<>>]
    /\ capacity = MaxTimers
    /\ panicked = FALSE
    /\ call = Idle
    /\ emitted = None
    /\ rpc_server_config = RpcServerConfig_default
    /\ modules \in TransportRpcModules
    /\ listeners \in SUBSET {Server(a, "other") : a \in SocketAddrs}
    /\ rpc_server_handle = None

\* the builder methods of RpcServerConfig
Configure ==
    \/ with_http
    \/ with_ws
    \/ \E addr \in SocketAddrs : with_http_address(addr)
    \/ \E addr \in SocketAddrs : with_ws_address(addr)

NextRpc == Configure \/ start

SpecRpc == InitRpc /\ [][NextRpc]_vars

(***************************************************************************)
(* Properties.  A step with call'.op = op is a call of op: the time        *)
(* service acts and results are taken only while call is Idle.             *)
(***************************************************************************)
\* C1: every NewRoundEvent returned by process_certificates has a round
\* strictly greater than the round of the event returned last before it (and
\* so, by transitivity, than the round of every event returned before it),
\* whatever other operations were called in between.
C1_EventRoundsIncrease ==
    (call.op = "process_certificates" /\ call.ret.kind = "Some"
        /\ emitted # None)
    => call.ret.event.round > emitted[1]

\* an event of round 2 is returned after an event of round 1
C1_SecondEvent ==
    /\ call.op = "process_certificates"
    /\ call.ret.kind = "Some"
    /\ call.ret.event.round = 2
    /\ emitted = Some(1)

\* C2: no step decreases current_round, and only a call of
\* process_certificates changes it: process_local_timeout (whatever its tag),
\* insert_vote, record_vote, setup_proposal_timeout and
\* setup_new_round_timeout leave it as it is.
C2_RoundOnlyUpByCertificates ==
    [][/\ current_round' >= current_round
       /\ current_round' # current_round => call'.op = "process_certificates"
      ]_vars

\* a local timeout tagged with an earlier round has been processed in round 2
C2_StaleTimeoutProcessed ==
    /\ call.op = "process_local_timeout"
    /\ call.ret.kind = "true"
    /\ call.arg[2] < current_round
    /\ current_round = 2

\* C3: a call of process_certificates with highest_round + 1 > current_round
\* returns Some(event) with event.round = highest_round + 1 and leaves
\* current_round = event.round, pending_votes fresh, vote_sent none and
\* new_round_sent false.
C3_AdvanceResets ==
    [][(call'.op = "process_certificates"
            /\ highest_round(call'.arg) + 1 > current_round)
       => /\ call'.ret.kind = "Some"
          /\ call'.ret.event.round = highest_round(call'.arg) + 1
          /\ current_round' = call'.ret.event.round
          /\ pending_votes' = PendingVotes_new
          /\ vote_sent' = None
          /\ new_round_sent' = FALSE
      ]_vars

\* the first event starts round 2: the round advanced from 0, skipping round 1
C3_AdvancedSkippingARound ==
    /\ call.op = "process_certificates"
    /\ call.ret.kind = "Some"
    /\ highest_round(call.arg) = 1
    /\ call.ret.event.round = 2
    /\ current_round = 2
    /\ emitted = None
    /\ VotesHeld(pending_votes) = {}
    /\ vote_sent = None
    /\ ~new_round_sent

\* C4: a call of process_certificates with highest_round + 1 <= current_round
\* returns None, schedules no timer message and leaves current_round,
\* pending_votes, vote_sent, new_round_sent and current_round_deadline
\* unchanged (highest_committed_round alone may change).
C4_NoAdvanceKeepsRound ==
    [][(call'.op = "process_certificates"
            /\ highest_round(call'.arg) + 1 <= current_round)
       => /\ call'.ret.kind = "None"
          /\ UNCHANGED <<current_round, pending_votes, vote_sent,
                         new_round_sent, current_round_deadline, scheduled,
                         channel>>
      ]_vars

\* None was returned in a round that holds a vote, a recorded vote and the
\* new-round flag, and the call raised highest_committed_round
C4_NoAdvanceWithRoundInProgress ==
    /\ call.op = "process_certificates"
    /\ call.ret.kind = "None"
    /\ highest_round(call.arg) + 1 <= current_round
    /\ VotesHeld(pending_votes) # {}
    /\ vote_sent # None
    /\ new_round_sent
    /\ highest_committed_round = call.arg.highest_commit_round
    /\ highest_committed_round > 0

\* C5: when process_certificates is called again at once with the same
\* SyncInfo, the second call returns None and changes neither the RoundState
\* nor the timers.
C5_SameSyncInfoTwice ==
    [][(call.op = "process_certificates" /\ call'.op = "process_certificates"
            /\ call'.arg = call.arg)
       => /\ call'.ret.kind = "None"
          /\ UNCHANGED <<round_state, timers>>
      ]_vars

\* the SyncInfo that started round 2 was passed again and None was returned
C5_SecondCallReturnedNone ==
    /\ call.op = "process_certificates"
    /\ call.ret.kind = "None"
    /\ emitted = Some(2)
    /\ current_round = 2
    /\ highest_round(call.arg) = 1
    /\ highest_committed_round = call.arg.highest_commit_round
    /\ BagCardinality(scheduled) = 1

\* C6 as stated: current_round >= highest_committed_round in every reachable
\* state, whatever the SyncInfos passed to process_certificates.
C6_RoundAtLeastCommitted == current_round >= highest_committed_round

\* C6 amended: current_round >= highest_committed_round holds initially and
\* is kept by every step, provided a SyncInfo passed to process_certificates
\* has highest_commit_round <= highest_round + 1.
C6_RoundAtLeastCommittedIfWithin ==
    /\ current_round >= highest_committed_round
    /\ [][(/\ current_round >= highest_committed_round
           /\ call'.op = "process_certificates"
                 => call'.arg.highest_commit_round
                        <= highest_round(call'.arg) + 1)
          => current_round' >= highest_committed_round'
         ]_vars

\* a SyncInfo with highest round 1 and commit round 2 started round 2
C6_CommitReachesRound ==
    /\ call.op = "process_certificates"
    /\ call.ret.kind = "Some"
    /\ highest_round(call.arg) = 1
    /\ call.arg.highest_commit_round = 2
    /\ highest_committed_round = 2
    /\ current_round = 2

\* C7: the vote in vote_sent, if any, is of current_round; record_vote stores
\* its vote exactly when the vote's round is current_round and otherwise
\* leaves vote_sent as it is; every change of current_round clears vote_sent.
C7_VoteSentOfCurrentRound ==
    /\ vote_sent # None => vote_sent[1].round = current_round
    /\ [][/\ vote_sent' # None => vote_sent'[1].round = current_round'
          /\ call'.op = "record_vote"
                => vote_sent' = IF call'.arg.round = current_round
                                THEN Some(call'.arg)
                                ELSE vote_sent
          /\ current_round' # current_round => vote_sent' = None
         ]_vars

\* in round 2, with a vote recorded, a vote of another round was offered
C7_StaleVoteNotRecorded ==
    /\ call.op = "record_vote"
    /\ call.arg.round # current_round
    /\ current_round = 2
    /\ vote_sent # None

\* C8 as stated: a call of setup_new_round_timeout that is the first of its
\* round (new_round_sent is false) returns Some(duration) and schedules one
\* message on the new-round channel tagged with the round; a later call of
\* the round returns None and schedules nothing.
C8_ArmedOncePerRound ==
    [][call'.op = "setup_new_round_timeout"
       => IF new_round_sent
          THEN call'.ret.kind = "None" /\ UNCHANGED timers
          ELSE /\ call'.ret.kind = "Some"
               /\ \E t \in BagToSet(scheduled') :
                     /\ t.chan = NEW_ROUND_TIMEOUT
                     /\ t.msg[2] = current_round
                     /\ scheduled' = scheduled (+) SetToBag({t})
               /\ channel' = channel
      ]_vars

\* C9: every vote held in pending_votes is of current_round, and the voting
\* power counted for a digest or for the timeout is that of authors of held
\* votes: no vote of an earlier round is counted.
C9_PendingVotesOfCurrentRound ==
    /\ \A v \in VotesHeld(pending_votes) : v.round = current_round
    /\ \A d \in Digests :
          pending_votes.li_digest_to_votes[d]
              \subseteq DOMAIN pending_votes.author_to_vote
    /\ pending_votes.timeout_votes \subseteq DOMAIN pending_votes.author_to_vote

\* a vote of round 2 is held in round 2, after an earlier round
C9_VoteHeldInLaterRound ==
    /\ call.op = "insert_vote"
    /\ call.ret.kind = "VoteAdded"
    /\ current_round = 2
    /\ emitted = Some(2)
    /\ VotesHeld(pending_votes) = {call.arg}

\* C10: insert_vote with a vote of another round than current_round returns
\* UnexpectedRound(vote round, current_round) and changes neither the
\* RoundState nor the timers; a vote of current_round gets the aggregator's
\* verdict, never UnexpectedRound.
C10_UnexpectedRoundRejected ==
    [][call'.op = "insert_vote"
       => IF call'.arg.round # current_round
          THEN /\ call'.ret = Verdict("UnexpectedRound", call'.arg.round,
                                      current_round)
               /\ UNCHANGED <<round_state, timers>>
          ELSE call'.ret.kind # "UnexpectedRound"
      ]_vars

\* a vote of a later round was rejected while a vote of the round is held
C10_LaterVoteRejected ==
    /\ call.op = "insert_vote"
    /\ call.ret.kind = "UnexpectedRound"
    /\ call.arg.round > current_round
    /\ call.ret.a = call.arg.round
    /\ call.ret.b = current_round
    /\ VotesHeld(pending_votes) # {}

\* C11 as stated: every call of process_local_timeout returns true, schedules
\* exactly one local-timeout message tagged (the argument's epoch,
\* current_round), sets current_round_deadline to now + the duration of
\* current_round, and leaves current_round, highest_committed_round,
\* pending_votes, vote_sent and new_round_sent unchanged.
C11_LocalTimeoutRearms ==
    [][call'.op = "process_local_timeout"
       => /\ call'.ret.kind = "true"
          /\ \E t \in BagToSet(scheduled') :
                /\ t.chan = LOCAL_TIMEOUT
                /\ t.msg = <<call'.arg[1], current_round>>
                /\ scheduled' = scheduled (+) SetToBag({t})
          /\ channel' = channel
          /\ current_round_deadline'
                = now + round_timeout(current_round, highest_committed_round)
          /\ UNCHANGED <<current_round, highest_committed_round,
                         pending_votes, vote_sent, new_round_sent>>
      ]_vars

\* C12 as stated: process_local_timeout re-arms the timeout and returns true
\* only for a message of current_round; for a message of another round it
\* returns false, schedules nothing and changes no state.
C12_StaleTimeoutIgnored ==
    [][call'.op = "process_local_timeout"
       => IF call'.arg[2] = current_round
          THEN call'.ret.kind = "true"
          ELSE /\ call'.ret.kind = "false"
               /\ UNCHANGED <<round_state, timers>>
      ]_vars

C14_RoundIndexOfDurations ==
    LET index == IF highest_committed_round = 0
                 THEN current_round - 1
                 ELSE IF current_round < highest_committed_round + 3
                 THEN 0
                 ELSE current_round - highest_committed_round - 3
    IN  /\ (call.op = "process_certificates" /\ call.ret.kind = "Some")
           => /\ index >= 0
              /\ call.ret.event.timeout
                    = get_round_duration(time_interval, index)
        /\ (call.op = "process_local_timeout" /\ call.ret.kind = "true")
           => /\ index >= 0
              /\ current_round_deadline
                    = now + get_round_duration(time_interval, index)
        /\ (call.op = "setup_proposal_timeout" /\ call.ret.kind = "Duration")
           => /\ index >= 0
              /\ call.ret.timeout
                    = HalfDuration(get_round_duration(time_interval, index))
        /\ (call.op = "setup_new_round_timeout" /\ call.ret.kind = "Some")
           => /\ index >= 0
              /\ call.ret.timeout
                    = HalfDuration(get_round_duration(time_interval, index))

\* C15 as stated: on every constructed ExponentialTimeInterval and for every
\* index, get_round_duration returns ceil(base_ms * exponent_base^min(index,
\* max_exponent)) milliseconds, at least the duration of the index before,
\* and the duration of index max_exponent from there on.
C15_DurationFormulaAndMonotone ==
    (call.op = "get_round_duration")
        => LET ti == time_interval
               index == call.arg
               pow == Min(index, ti.max_exponent)
           IN  /\ call.ret.timeout
                     = Millis(CeilDiv(ti.base_ms * Pow(ti.exp_num, pow),
                                      Pow(ti.exp_den, pow)))
               /\ index >= 1
                     => call.ret.timeout
                          >= get_round_duration(ti, index - 1)
               /\ index >= ti.max_exponent
                     => call.ret.timeout
                          = get_round_duration(ti, ti.max_exponent)

\* C16 as stated: on every constructed ExponentialTimeInterval no duration
\* exceeds ceil(base_ms * exponent_base^max_exponent) milliseconds, whether
\* get_round_duration returns it, a NewRoundEvent reports it or the deadline
\* of the round is set by it.
C16_DurationBounded ==
    LET ti == time_interval
        bound == Millis(CeilDiv(ti.base_ms * Pow(ti.exp_num, ti.max_exponent),
                                Pow(ti.exp_den, ti.max_exponent)))
    IN  /\ call.op = "get_round_duration" => call.ret.timeout <= bound
        /\ (call.op = "process_certificates" /\ call.ret.kind = "Some")
              => /\ call.ret.event.timeout <= bound
                 /\ current_round_deadline <= now + bound

C18_ConstructorKeepsMultiplierInU32 ==
    (call.op = "new")
        => LET num == call.arg[2][1]
               den == call.arg[2][2]
               max_exponent == call.arg[3]
               power(e) == CeilDiv(Pow(num, e), Pow(den, e))
               fits(x) == 0 <= x /\ x <= U32_MAX
           IN  /\ max_exponent >= MAX_EXPONENT_LIMIT
                     => call.ret.kind = "panic"
               /\ ~fits(power(max_exponent)) => call.ret.kind = "panic"
               /\ call.ret.kind = "Self"
                     => \A index \in PolicyIndices :
                            power(Min(index, max_exponent)) <= U32_MAX

\* C19: every task handed to the time service, on any of the three channels,
\* carries the current round of the moment it is armed; hence every task
\* scheduled and every message sent carries a round that is at most the
\* current round.
C19_TimersTaggedWithRoundAtArmTime ==
    /\ [](/\ \A t \in BagToSet(scheduled) : t.msg[2] <= current_round
          /\ \A c \in Channels : \A i \in 1..Len(channel[c]) :
                channel[c][i][2] <= current_round)
    /\ [][\A t \in BagToSet(scheduled') :
             CopiesIn(t, scheduled') > CopiesIn(t, scheduled)
                => t.msg[2] = current_round']_vars

\* tasks of two rounds are scheduled on the local-timeout channel, and a task
\* of an earlier round on another channel
C19_TasksOfSeveralRounds ==
    /\ \E t \in BagToSet(scheduled) :
          t.chan = LOCAL_TIMEOUT /\ t.msg[2] = current_round
    /\ \E t \in BagToSet(scheduled) :
          t.chan # LOCAL_TIMEOUT /\ t.msg[2] < current_round

\* C20: timers are never cancelled.  A step that advances the round leaves
\* every scheduled task scheduled and every channel as it is, and a task
\* armed in a round the RoundState has left is eventually run by the time
\* service: its message, tagged with the round left, is sent on its channel
\* while current_round is beyond that round.
C20_TimersNeverCancelled ==
    /\ [][current_round' > current_round
            => /\ \A t \in BagToSet(scheduled) :
                    CopiesIn(t, scheduled') >= CopiesIn(t, scheduled)
               /\ channel' = channel]_vars
    /\ \A c \in Channels, r \in TimerRounds :
          (/\ current_round > r
           /\ \E t \in BagToSet(scheduled) : t.chan = c /\ t.msg[2] = r)
            ~> (/\ current_round > r
                /\ \E i \in 1..Len(channel[c]) : channel[c][i][2] = r)

\* the message of a round the RoundState has left is on the local-timeout
\* channel, next to a task of the current round still scheduled
C20_StaleMessageSent ==
    /\ \E i \in 1..Len(channel[LOCAL_TIMEOUT]) :
          channel[LOCAL_TIMEOUT][i][2] < current_round
    /\ \E t \in BagToSet(scheduled) :
          t.chan = LOCAL_TIMEOUT /\ t.msg[2] = current_round

\* C21: the local-timeout chain never dies before the next round starts.  If
\* the RoundState stays in a round r >= 1 for good, the time service sends
\* local-timeout messages tagged r again and again, provided the owner
\* passes each message it receives to process_local_timeout.
C21_LocalTimeoutChainNeverDies ==
    \A r \in 1..(MaxRound + 1) :
        <>[](current_round = r) => []<><<FireFor(LOCAL_TIMEOUT, r)>>_vars

\* a message of the current round was passed to process_local_timeout, and
\* the message of the timer armed by that call is on the channel
C21_RearmedTimerFired ==
    /\ current_round >= 1
    /\ call.op = "process_local_timeout"
    /\ call.arg[2] = current_round
    /\ scheduled = EmptyBag
    /\ \E i \in 1..Len(channel[LOCAL_TIMEOUT]) :
          channel[LOCAL_TIMEOUT][i][2] = current_round

\* C22: in every round at most one insert_vote returns NewQuorumCertificate
\* and at most one returns NewTimeoutCertificate.  A certificate is returned
\* only by the call that brings the votes of a ledger info (the timeout
\* signatures) to the quorum; within a round the votes counted only grow, so
\* no later call of the round returns that certificate again, and a further
\* vote for a ledger info that already has its certificate returns VoteAdded.
C22_OneCertificatePerRound ==
    [][LET quorum(pv) ==
               \E d \in Digests :
                   check_voting_power(verifier, pv.li_digest_to_votes[d])
           timeout_quorum(pv) ==
               check_voting_power(verifier, pv.timeout_votes)
       IN  /\ current_round' = current_round
               => /\ \A d \in Digests :
                        pending_votes.li_digest_to_votes[d]
                            \subseteq pending_votes'.li_digest_to_votes[d]
                  /\ pending_votes.timeout_votes
                        \subseteq pending_votes'.timeout_votes
           /\ call'.op = "insert_vote"
               => /\ call'.ret.kind = "NewQuorumCertificate"
                        => ~quorum(pending_votes) /\ quorum(pending_votes')
                  /\ call'.ret.kind = "NewTimeoutCertificate"
                        => /\ ~timeout_quorum(pending_votes)
                           /\ timeout_quorum(pending_votes')
                  /\ (/\ call'.arg.round = current_round
                      /\ ~call'.arg.timeout
                      /\ call'.arg.author
                            \notin DOMAIN pending_votes.author_to_vote
                      /\ check_voting_power(verifier,
                            pending_votes.li_digest_to_votes[call'.arg.digest]))
                        => call'.ret.kind = "VoteAdded"
      ]_vars

\* the fourth validator has voted for the ledger info that had its
\* certificate, and the timeout certificate of the round was returned too
C22_FourthVoteAfterCertificate ==
    /\ call.op = "insert_vote"
    /\ call.ret.kind = "VoteAdded"
    /\ pending_votes.tc_emitted
    /\ \E d \in Digests : pending_votes.li_digest_to_votes[d] = Authors

C24_EquivocationNotCounted ==
    /\ [](/\ \A a \in Authors :
                Cardinality({d \in Digests :
                    a \in pending_votes.li_digest_to_votes[d]}) <= 1
          /\ Cardinality({d \in Digests :
                check_voting_power(verifier,
                    pending_votes.li_digest_to_votes[d])}) <= 1)
    /\ [][(/\ call'.op = "insert_vote"
           /\ call'.arg.round = current_round
           /\ call'.arg.author \in DOMAIN pending_votes.author_to_vote
           /\ pending_votes.author_to_vote[call'.arg.author].digest
                 # call'.arg.digest)
            => /\ call'.ret.kind = "EquivocateVote"
               /\ pending_votes'.li_digest_to_votes
                     = pending_votes.li_digest_to_votes
          ]_vars

\* an author counted for D1 has voted for D2, where two other authors are
\* counted: the vote would have completed the quorum of D2
C24_EquivocationAtQuorum ==
    /\ call.op = "insert_vote"
    /\ call.ret.kind = "EquivocateVote"
    /\ call.arg.digest = "D2"
    /\ call.arg.author \in pending_votes.li_digest_to_votes["D1"]
    /\ Cardinality(pending_votes.li_digest_to_votes["D2"]) = 2

\* C25: when process_certificates starts a round, the committed round of the
\* SyncInfo is taken first.  The timeout of the event is the duration of the
\* index of the new round after the committed round as updated, one
\* local-timeout task tagged (epoch of the SyncInfo, new round) is scheduled
\* with that delay, and current_round_deadline is now plus that duration.
C25_CommitHintBeforeTimeout ==
    [][(call'.op = "process_certificates" /\ call'.ret.kind = "Some")
        => LET si == call'.arg
               committed == Max(highest_committed_round,
                                si.highest_commit_round)
               round == current_round'
               index == IF committed = 0 THEN round - 1
                        ELSE IF round < committed + 3 THEN 0
                        ELSE round - committed - 3
               duration == get_round_duration(time_interval, index)
           IN  /\ highest_committed_round' = committed
               /\ round = highest_round(si) + 1
               /\ index >= 0
               /\ call'.ret.event.round = round
               /\ call'.ret.event.timeout = duration
               /\ scheduled' = scheduled (+) SetToBag({
                     SendTask(LOCAL_TIMEOUT, si.epoch, round, duration)})
               /\ channel' = channel
               /\ current_round_deadline' = now + duration
      ]_vars

\* a round three or more rounds beyond the committed round has started with
\* the SyncInfo that raised the committed round, with the doubled timeout
C25_AdvancedWithNewCommit ==
    /\ call.op = "process_certificates"
    /\ call.ret.kind = "Some"
    /\ call.arg.highest_commit_round = highest_committed_round
    /\ highest_committed_round = 1
    /\ current_round = 5
    /\ emitted = Some(4)
    /\ call.ret.event.timeout = 2 * Millis(time_interval.base_ms)

\* C26: highest_committed_round never decreases, and after every
\* process_certificates call it is the maximum of its value before and the
\* committed round of the SyncInfo, also when the call starts no round and
\* returns None.
C26_CommittedRoundIsRunningMaximum ==
    [][/\ highest_committed_round' >= highest_committed_round
       /\ call'.op # "process_certificates"
            => highest_committed_round' = highest_committed_round
       /\ call'.op = "process_certificates"
            => highest_committed_round'
                 = Max(highest_committed_round,
                       call'.arg.highest_commit_round)
      ]_vars

\* a call that returned None has raised the committed round: the deadline of
\* the round was armed with the doubled duration, and a timer armed from now
\* on in the same round has the base duration
C26_HintTakenWithoutAdvance ==
    /\ call.op = "process_certificates"
    /\ call.ret.kind = "None"
    /\ call.arg.highest_commit_round = highest_committed_round
    /\ current_round = 2
    /\ current_round_deadline = now + 2 * Millis(time_interval.base_ms)
    /\ round_timeout(current_round, highest_committed_round)
          = Millis(time_interval.base_ms)

\* C27 as stated: every call of setup_proposal_timeout, also a repeated one
\* in the same round, changes no field of the RoundState, returns half the
\* duration of the index of the current round and schedules one more
\* proposal-timeout task tagged (epoch, current_round).
C27_ProposalTimeoutUnguarded ==
    [][(call = Idle /\ call'.op = "setup_proposal_timeout")
        => LET index == IF highest_committed_round = 0
                        THEN current_round - 1
                        ELSE IF current_round < highest_committed_round + 3
                        THEN 0
                        ELSE current_round - highest_committed_round - 3
               half == HalfDuration(get_round_duration(time_interval, index))
           IN  /\ index >= 0
               /\ call'.ret.kind = "Duration"
               /\ call'.ret.timeout = half
               /\ UNCHANGED round_state
               /\ scheduled' = scheduled (+) SetToBag({
                     SendTask(PROPOSAL_TIMEOUT, call'.arg, current_round,
                              half)})
               /\ channel' = channel
      ]_vars

\* C28 as stated: when the SyncInfo that starts a round carries a QC and a TC
\* of the same round, the reason of the NewRoundEvent is QCReady.
C28_EqualRoundsGiveQCReady ==
    (/\ call.op = "process_certificates"
     /\ call.ret.kind = "Some"
     /\ call.arg.highest_tc_round = Some(call.arg.highest_qc_round))
        => call.ret.event.reason = "QCReady"

\* C29 as stated: the deadline set on entering a round is not earlier than
\* the deadline set for the round before it, also when the SyncInfo that
\* starts the round raises the committed round.
C29_DeadlinesMonotonic ==
    [][current_round' > current_round
        => current_round_deadline' >= current_round_deadline]_vars

\* C30 as stated: in every state in which a timer can be armed, a fresh
\* RoundState included, the round index is computed without underflow:
\* current_round - 1, respectively current_round - highest_committed_round
\* - 3, is not negative when process_local_timeout, setup_proposal_timeout
\* or setup_new_round_timeout is called, and the call does not panic.
C30_RoundIndexNeverUnderflows ==
    [][call'.op \in {"process_local_timeout", "setup_proposal_timeout",
                     "setup_new_round_timeout"}
        => /\ call'.ret.kind # "panic"
           /\ IF highest_committed_round = 0
              THEN current_round - 1 >= 0
              ELSE \/ current_round < highest_committed_round + 3
                   \/ current_round - highest_committed_round - 3 >= 0
      ]_vars

\* C31: while the consumer passes to process_local_timeout only the received
\* local-timeout messages that carry the current round and drops the stale
\* ones, at every moment at most one local-timeout message tagged with the
\* current round is scheduled or sent and not yet received.
C31_OneCurrentLocalTimeoutOutstanding ==
    UndeliveredLocalTimeouts(current_round) <= 1

\* a message of the current round was passed on and the timer armed again,
\* while the task of an earlier round is still scheduled
C31_RearmedBesideStaleTask ==
    /\ call.op = "process_local_timeout"
    /\ call.arg[2] = current_round
    /\ UndeliveredLocalTimeouts(current_round) = 1
    /\ \E r \in 1..(current_round - 1) : UndeliveredLocalTimeouts(r) = 1

\* C32 as stated: for every configuration the constructor accepts and every
\* round and committed round reached, the durations derived from the round
\* are strictly positive: the timeout of a NewRoundEvent, the duration
\* returned by setup_proposal_timeout and the duration in the Some returned
\* by setup_new_round_timeout.
C32_DurationsStrictlyPositive ==
    /\ (call.op = "process_certificates" /\ call.ret.kind = "Some")
          => call.ret.event.timeout > 0
    /\ (call.op = "setup_proposal_timeout" /\ call.ret.kind = "Duration")
          => call.ret.timeout > 0
    /\ (call.op = "setup_new_round_timeout" /\ call.ret.kind = "Some")
          => call.ret.timeout > 0

\* C33 as stated: when http and ws are both configured, start merges them
\* into one server whenever their socket addresses are equal, an unset
\* address standing for the default address of the transport: the address
\* is bound once and the handle returned has the same local address and the
\* same server handle for http and ws; when the addresses differ it starts
\* two servers, one on each address.  (The addresses are free and the
\* modules of the transports are installed, identical where one server has
\* to serve both.)
C33_OneServerIffSameAddress ==
    LET cfg == rpc_server_config
        http == http_socket_addr(cfg)
        ws == ws_socket_addr(cfg)
        ours == {l \in listeners : l.transport # "other"}
        free(a) == Server(a, "other") \notin listeners
    IN  (/\ rpc_server_handle # None
         /\ cfg.http_server_config
         /\ cfg.ws_server_config
         /\ free(http)
         /\ free(ws)
         /\ modules.http
         /\ modules.ws)
            => LET h == rpc_server_handle[1]
               IN  /\ (http = ws /\ modules.identical)
                        => /\ h.kind = "Ok"
                           /\ Cardinality(ours) = 1
                           /\ h.http_local_addr = Some(http)
                           /\ h.ws_local_addr = Some(http)
                           /\ h.http # None
                           /\ h.http = h.ws
                   /\ http # ws
                        => /\ h.kind = "Ok"
                           /\ Cardinality(ours) = 2
                           /\ h.http_local_addr = Some(http)
                           /\ h.ws_local_addr = Some(ws)
                           /\ h.http # None
                           /\ h.ws # None
                           /\ h.http # h.ws
====
